---- MODULE Spec2Model ----
(***************************************************************************)
(* Constellation generation: technology scoring, star/technology mapping   *)
(* and the label placement of TextOverlayService (12-sector scoring); the  *)
(* stages of ConstellationOrchestrator.generate over the template catalog; *)
(* the quota and the validation of ImageGenerator under the event loop;    *)
(* the geometry helpers of TextOverlayService and CVParser._clean_text as  *)
(* single calls.                                                           *)
(*                                                                         *)
(* Units.  The Python code computes with floats; here every quantity is a  *)
(* fixed-point integer:                                                    *)
(*   - pixel coordinates of stars and boxes are integers, as in the code;  *)
(*   - the hypothetical label centre (star + 60*cos, star + 60*sin) is in  *)
(*     thousandths of a pixel ("mpx"); where the exact value is an integer *)
(*     and the float sum star + 60*cos(i*2*pi/12) is not, the float's      *)
(*     deviation (about 1e-14) is kept as one mpx of the same sign, so     *)
(*     that int() and the comparisons with integers decide as in Python;   *)
(*   - angles are in thousandths of a degree ("mdeg");                     *)
(*   - sector scores are in thousandths of a point ("mpt").                *)
(* The fractional penalties (atan2, sqrt) are computed to about 0.01 point *)
(* here and to about 1e-14 in Python, so the order in which the sort of    *)
(* _calculate_sector_scores leaves two sectors is known only when their    *)
(* scores differ by more than Precision.score or when both scores are      *)
(* exact (no fractional penalty applies to either).  For the other pairs   *)
(* the model allows both orders: the sector loop of _find_label_position   *)
(* visits next any sector that the sort can have left first among those    *)
(* not visited yet.                                                        *)
(* Star indices are 0-based as in the code; sequences are 1-based, so star *)
(* i is stars[i + 1].                                                      *)
(***************************************************************************)
EXTENDS Integers, Sequences, FiniteSets, TLC

VARIABLES
    pc,               \* position in the pipeline / in add_tech_labels
    tech_counts,      \* Counter of raw occurrences, in dictionary order
    technologies,     \* analysis["technologies"]
    star_positions,   \* template["stars"]
    connections,      \* template["connections"]
    title,            \* title text (its length in characters)
    mappings,         \* list of StarTechMapping
    order,            \* star_connection_counts after the sort
    k,                \* index of the label being processed (1-based in order)
    sector_scores,    \* the scored sectors of _calculate_sector_scores for that label
    visited,          \* sectors the loop of _find_label_position has visited
    position,         \* (x, y) returned by _find_label_position, or None
    occupied_boxes,   \* occupied_boxes of add_tech_labels
    attempts,         \* log: one record per finished call of _find_label_position
    error,            \* exception that ended the run, or "none"
    \* ConstellationOrchestrator.generate, stage by stage
    catalog,          \* CONSTELLATIONS as the module defines it
    stage,            \* next stage of generate, "returned" or "raised"
    externals,        \* what the outside world answers: parse, remote model
    ran,              \* the stages that have run, in order
    num_techs,        \* len(technologies)
    template,         \* index of the selected template in catalog, 0 before
    mapping_count,    \* num_mappings = min(total_techs, available_positions)
    composer_input,   \* << what ImageComposer.compose received >>, or None
    raised,           \* the exception generate raised to its caller, or "none"
    result,           \* << the ConstellationResult returned >>, or None
    \* ImageGenerator
    class_attrs,      \* ImageGenerator._generation_count and ._quota_reset_date
    inst_attrs,       \* the same two names in each instance's own __dict__
    today,            \* date.today(), as a day number
    requests,         \* one record per request: position, instance, outcome
    running,          \* the request that holds the event loop, 0 if none
    status,           \* << the last dictionary get_quota_status returned >>, or None
    admitted,         \* generations admitted by all instances since a reset
    \* single calls of helper functions
    helper            \* the call in progress or returned: function, arguments, result

placement_vars == << pc, tech_counts, technologies, star_positions, connections, title,
                     mappings, order, k, sector_scores, visited, position, occupied_boxes,
                     attempts, error >>

pipeline_vars == << catalog, stage, externals, ran, num_techs, template, mapping_count,
                    composer_input, raised, result >>

generator_vars == << class_attrs, inst_attrs, today, requests, running, status, admitted >>

helper_vars == << helper >>

service_vars == << pipeline_vars, generator_vars, helper_vars >>

vars == << placement_vars, service_vars >>

None == << >>

-----------------------------------------------------------------------------
(* Bounds of the model                                                     *)

MaxStars == 3
MaxCount == 2

(* Program constants                                                       *)

MIN_DISTANCE_FROM_STAR == 60
MIN_DISTANCE_FROM_OTHER_STARS == 40
NUM_SECTORS == 12

(* Environment: canvas, font metrics (Pillow), dictionary, star sites      *)

\* image.size of the canvas the labels are drawn on
ImageSize == << 400, 200 >>

\* ImageFont metrics of the three SpaceMono fonts (monospaced): advance per
\* character, height of the text bounding box and the offset of the bounding
\* box from the drawing origin, as ImageDraw.textbbox reports them.
Font == [ label     |-> [ charW |-> 11, textH |-> 14, bearX |-> 0, bearY |-> 5 ],
          title     |-> [ charW |-> 20, textH |-> 26, bearX |-> 0, bearY |-> 8 ],
          watermark |-> [ charW |-> 10, textH |-> 13, bearX |-> 0, bearY |-> 4 ] ]

\* "Made with <3 by Florian RADUREAU"
WatermarkTextLen == 32

\* Technology names of the keyword dictionary, in iteration order
KnownTechs == << [ name |-> "python", len |-> 6 ],
                [ name |-> "kubernetes", len |-> 10 ] >>

\* Positions a template may put a star at
Sites == { << 30, 103 >>, << 30, 130 >>, << 90, 103 >>, << 392, 192 >> }

\* Lengths of the titles the title generator may return
TitleLens == { 6 }

\* Resolution of the fixed-point arithmetic against the doubles of the code:
\* scores in mpt, angles in mdeg, distances in mpx
Precision == [ score |-> 100, angle |-> 50, distance |-> 50 ]

-----------------------------------------------------------------------------
(* Arithmetic helpers                                                      *)

Abs(x) == IF x < 0 THEN -x ELSE x

Min2(a, b) == IF a <= b THEN a ELSE b

\* Python int(): truncation toward zero of num/den, den > 0
TruncDiv(num, den) == IF num >= 0 THEN num \div den ELSE -((-num) \div den)

RECURSIVE isqrt_iter(_, _)
isqrt_iter(n, x) ==
    LET y == (x + n \div x) \div 2
    IN  IF y >= x THEN x ELSE isqrt_iter(n, y)

\* floor(sqrt(n)), Newton iteration from a start above the root
ISqrt(n) == IF n <= 0 THEN 0 ELSE isqrt_iter(n, Min2(n, 46340))

\* atan(j/64) in mdeg, j = 0..64
AtanTable ==
    << 0, 895, 1790, 2684, 3576, 4467, 5356, 6242,
       7125, 8005, 8881, 9752, 10620, 11482, 12339, 13191,
       14036, 14876, 15709, 16535, 17354, 18166, 18970, 19767,
       20556, 21337, 22109, 22874, 23629, 24376, 25115, 25844,
       26565, 27277, 27979, 28673, 29358, 30033, 30700, 31357,
       32005, 32645, 33275, 33896, 34509, 35112, 35707, 36293,
       36870, 37439, 37999, 38550, 39094, 39629, 40156, 40675,
       41186, 41689, 42184, 42672, 43152, 43625, 44091, 44549,
       45000 >>

\* atan(a/b) in mdeg for 0 <= a <= b, b > 0 (table with linear interpolation)
AtanRatio(a, b) ==
    LET q    == (a * 65536) \div b
        j    == q \div 1024
        frac == q % 1024
    IN  IF frac = 0 THEN AtanTable[j + 1]
        ELSE AtanTable[j + 1] + ((AtanTable[j + 2] - AtanTable[j + 1]) * frac) \div 1024

\* math.atan2(dy, dx) in mdeg, in (-180000, 180000]
atan2(dy, dx) ==
    LET a    == Abs(dy)
        b    == Abs(dx)
        base == IF a = 0 /\ b = 0 THEN 0
                ELSE IF a <= b THEN AtanRatio(a, b)
                ELSE 90000 - AtanRatio(b, a)
    IN  IF dx >= 0 /\ dy >= 0 THEN base
        ELSE IF dx < 0 /\ dy >= 0 THEN 180000 - base
        ELSE IF dx < 0 THEN base - 180000
        ELSE -base

\* 10^6 * cos(i*30 deg) and 10^6 * sin(i*30 deg), i = 0..11
CosTable == << 1000000, 866025, 500000, 0, -500000, -866025,
               -1000000, -866025, -500000, 0, 500000, 866025 >>
SinTable == << 0, 500000, 866025, 1000000, 866025, 500000,
               0, -500000, -866025, -1000000, -866025, -500000 >>

\* Rounding of the double star + 60 * math.cos(i * sector_size) against its exact
\* value, for the sectors whose exact offset is an integer: << sign, limit >>, the
\* double deviates with that sign for an integer star coordinate below limit and is
\* exact from limit on (the error of 60*cos is below half an ulp of the sum).
CosRounding == << << 0, 0 >>, << 0, 0 >>, << 1, 34 >>, << 1, 64 >>, << 1, 158 >>, << 0, 0 >>,
                  << 0, 0 >>, << 0, 0 >>, << -1, 287 >>, << -1, 129 >>, << -1, 483 >>, << 0, 0 >> >>
SinRounding == << << 0, 0 >>, << -1, 3 >>, << 0, 0 >>, << 0, 0 >>, << 0, 0 >>, << 1, 226 >>,
                  << 1, 128 >>, << 1, 286 >>, << 0, 0 >>, << 0, 0 >>, << 0, 0 >>, << -1, 287 >> >>

Rounding(r, coord) == IF coord < r[2] THEN r[1] ELSE 0

\* star + MIN_DISTANCE_FROM_STAR * cos/sin(sector_angle) for sector i, in mpx
radial_x(star_x, i) ==
    1000 * star_x + (MIN_DISTANCE_FROM_STAR * CosTable[i + 1]) \div 1000
    + Rounding(CosRounding[i + 1], star_x)
radial_y(star_y, i) ==
    1000 * star_y + (MIN_DISTANCE_FROM_STAR * SinTable[i + 1]) \div 1000
    + Rounding(SinRounding[i + 1], star_y)

\* list.sort(key=lambda x: x[1], reverse=True) on a list of pairs: descending
\* second component, stable (equal keys keep their original order)
RECURSIVE sort_desc(_)
sort_desc(s) ==
    IF s = << >> THEN << >>
    ELSE LET h    == Head(s)
             rest == sort_desc(Tail(s))
             n    == Cardinality({ j \in 1..Len(rest) : rest[j][2] > h[2] })
         IN  SubSeq(rest, 1, n) \o << h >> \o SubSeq(rest, n + 1, Len(rest))

-----------------------------------------------------------------------------
(* Text measurement                                                        *)

\* ImageDraw.textbbox((x, y), text, font=f) for a text of len characters
textbbox(x, y, len, f) ==
    << x + f.bearX, y + f.bearY, x + f.bearX + f.charW * len, y + f.bearY + f.textH >>

Pad(box, padding) ==
    << box[1] - padding, box[2] - padding, box[3] + padding, box[4] + padding >>

-----------------------------------------------------------------------------
(* Geometry helpers of TextOverlayService                                  *)

\* the overlap test of _boxes_overlap for one pair of boxes
BoxOverlap(a, b) ==
    ~(a[3] < b[1] \/ a[1] > b[3] \/ a[4] < b[2] \/ a[2] > b[4])

boxes_overlap(box, boxes) ==
    \E j \in 1..Len(boxes) : BoxOverlap(box, boxes[j])

\* diff = abs(angle1 - angle2); min(diff, 2*pi - diff), in mdeg
min_angular_distance(angle1, angle2) ==
    LET diff == Abs(angle1 - angle2)
    IN  Min2(diff, 360000 - diff)

\* point in mpx, box in px
point_in_box(px, py, box) ==
    /\ 1000 * box[1] <= px /\ px <= 1000 * box[3]
    /\ 1000 * box[2] <= py /\ py <= 1000 * box[4]

\* math.hypot of two mpx differences, in mpx (computed at 1/10 px)
hypot_m(dx, dy) ==
    100 * ISqrt((dx \div 100) * (dx \div 100) + (dy \div 100) * (dy \div 100))

\* a distance to the segment: the foot of the perpendicular is clamped to the ends
point_to_segment_distance(px, py, p1, p2) ==
    LET x1   == p1[1]
        y1   == p1[2]
        x2   == p2[1]
        y2   == p2[2]
        len2 == (y2 - y1) * (y2 - y1) + (x2 - x1) * (x2 - x1)
        along == ((px \div 1000) - x1) * (x2 - x1) + ((py \div 1000) - y1) * (y2 - y1)
    IN  IF len2 = 0 \/ along <= 0
        THEN hypot_m(Abs(px - 1000 * x1), Abs(py - 1000 * y1))
        ELSE IF along >= len2
        THEN hypot_m(Abs(px - 1000 * x2), Abs(py - 1000 * y2))
        ELSE LET numerator   == Abs((y2 - y1) * px - (x2 - x1) * py
                                    + 1000 * (x2 * y1 - y2 * x1))
                 denominator == ISqrt(10000 * len2)
             IN  100 * (numerator \div denominator)
                 + (100 * (numerator % denominator)) \div denominator

\* _point_to_line_distance: point in mpx, line points in px, result in mpx
point_to_line_distance(px, py, p1, p2) ==
    IF p1[1] = p2[1] /\ p1[2] = p2[2]
    THEN hypot_m(Abs(px - 1000 * p1[1]), Abs(py - 1000 * p1[2]))
    ELSE LET x1 == p1[1]
             y1 == p1[2]
             x2 == p2[1]
             y2 == p2[2]
             numerator   == Abs((y2 - y1) * px - (x2 - x1) * py
                                + 1000 * (x2 * y1 - y2 * x1))
             \* 100 * sqrt((y2-y1)^2 + (x2-x1)^2)
             denominator == ISqrt(10000 * ((y2 - y1) * (y2 - y1) + (x2 - x1) * (x2 - x1)))
         IN  100 * (numerator \div denominator)
             + (100 * (numerator % denominator)) \div denominator

-----------------------------------------------------------------------------
(* Forbidden zones                                                         *)

get_title_zone(image_size, title_len) ==
    LET bbox        == textbbox(0, 0, title_len, Font.title)
        text_width  == bbox[3] - bbox[1]
        text_height == bbox[4] - bbox[2]
        x           == (image_size[1] - text_width) \div 2
        y           == 60
        padding     == 15
    IN  << x - padding, y - padding, x + text_width + padding, y + text_height + padding >>

get_watermark_zone(image_size) ==
    LET bbox        == textbbox(0, 0, WatermarkTextLen, Font.watermark)
        text_width  == bbox[3] - bbox[1]
        text_height == bbox[4] - bbox[2]
        padding     == 8
        margin      == 20
        x           == image_size[1] - text_width - padding * 2 - margin
        y           == image_size[2] - text_height - padding * 2 - margin
    IN  << x - padding, y - padding, x + text_width + padding, y + text_height + padding >>

-----------------------------------------------------------------------------
(* Sector scoring                                                          *)

RECURSIVE SumSeq(_)
SumSeq(s) == IF s = << >> THEN 0 ELSE Head(s) + SumSeq(Tail(s))

\* conn is incident to star idx ("star_idx in conn")
Incident(idx, conn) == conn[1] = idx \/ conn[2] = idx

\* direction of a connection seen from star idx, in mdeg
connection_angle(idx, conn, positions) ==
    LET other_idx == IF conn[1] = idx THEN conn[2] ELSE conn[1]
        other     == positions[other_idx + 1]
        star      == positions[idx + 1]
    IN  atan2(other[2] - star[2], other[1] - star[1])

\* PENALTY 1 of one incident connection for a sector, in mpt
edge_penalty(sector_angle, conn_angle) ==
    LET angular_distance == min_angular_distance(sector_angle, conn_angle)
    IN  IF angular_distance < 30000
        THEN 50000 - (5 * angular_distance) \div 3
        ELSE 0

\* PENALTY 2: is the centre of box within 100 px of the test point
label_nearby(test_x, test_y, box) ==
    LET dx == Abs(test_x - 500 * (box[1] + box[3])) \div 10
        dy == Abs(test_y - 500 * (box[2] + box[4])) \div 10
    IN  dx < 10000 /\ dy < 10000 /\ dx * dx + dy * dy < 100000000

\* PENALTY 5 of one connection line for a test point, in mpt
line_penalty(test_x, test_y, conn, positions) ==
    LET distance_to_line == point_to_line_distance(test_x, test_y,
                                positions[conn[1] + 1], positions[conn[2] + 1])
    IN  IF distance_to_line < 30000 THEN 30000 - distance_to_line ELSE 0

\* is the float score of a sector free of rounding: no incident connection is
\* within 30 degrees (or within Precision.angle of it) and no connection line is
\* within 30 px (or within Precision.distance of it) of the test point
score_is_exact(sector_angle, test_x, test_y, star_idx, conns, positions) ==
    \A j \in 1..Len(conns) :
        /\ Incident(star_idx, conns[j]) =>
              min_angular_distance(sector_angle,
                                   connection_angle(star_idx, conns[j], positions))
                 >= 30000 + Precision.angle
        /\ point_to_line_distance(test_x, test_y, positions[conns[j][1] + 1],
                                  positions[conns[j][2] + 1])
              >= 30000 + Precision.distance

\* score of sector i (0..11) around star star_idx, in mpt
sector_score(i, star_idx, star_x, star_y, conns, positions, occupied, image_size, title_len) ==
    LET sector_angle == i * 30000
        test_x == radial_x(star_x, i)
        test_y == radial_y(star_y, i)
        p1 == SumSeq([ j \in 1..Len(conns) |->
                         IF Incident(star_idx, conns[j])
                         THEN edge_penalty(sector_angle,
                                           connection_angle(star_idx, conns[j], positions))
                         ELSE 0 ])
        nearby_labels == Cardinality({ j \in 1..Len(occupied) :
                                         label_nearby(test_x, test_y, occupied[j]) })
        p3 == IF point_in_box(test_x, test_y, get_title_zone(image_size, title_len))
              THEN 200000 ELSE 0
        p4 == IF point_in_box(test_x, test_y, get_watermark_zone(image_size))
              THEN 200000 ELSE 0
        p5 == SumSeq([ j \in 1..Len(conns) |->
                         line_penalty(test_x, test_y, conns[j], positions) ])
    IN  100000 - p1 - nearby_labels * 20000 - p3 - p4 - p5

\* (sector, score, exact) of sector i
sector_entry(i, star_idx, star_x, star_y, conns, positions, occupied, image_size, title_len) ==
    << i,
       sector_score(i, star_idx, star_x, star_y, conns, positions, occupied, image_size,
                    title_len),
       score_is_exact(i * 30000, radial_x(star_x, i), radial_y(star_y, i), star_idx, conns,
                      positions) >>

\* scores.sort(key=lambda x: x[1], reverse=True) certainly leaves u before v
sorted_before(u, v) ==
    IF u[3] /\ v[3]
    THEN u[2] > v[2] \/ (u[2] = v[2] /\ u[1] < v[1])
    ELSE u[2] > v[2] + Precision.score

\* _calculate_sector_scores: the scored sectors (sector, score, exact), in sector
\* order; the sort is resolved by next_sectors as the loop visits them
calculate_sector_scores(star_idx, star_x, star_y, conns, positions, occupied, image_size, title_len) ==
    [ n \in 1..NUM_SECTORS |->
        sector_entry(n - 1, star_idx, star_x, star_y, conns, positions, occupied,
                     image_size, title_len) ]

\* the loop visits the sectors in no particular order
any_unseen_sector(scores, seen) ==
    { e \in { scores[n] : n \in 1..Len(scores) } : e[1] \notin seen }

\* the entries the sorted list can hold right after the entries of the sectors in
\* seen: those not certainly sorted after another entry that is not in seen
next_sectors(scores, seen) ==
    { e \in { scores[n] : n \in 1..Len(scores) } :
        /\ e[1] \notin seen
        /\ \A n \in 1..Len(scores) :
              scores[n][1] \notin seen /\ scores[n] # e => ~sorted_before(scores[n], e) }

-----------------------------------------------------------------------------
(* Candidate position of one sector and its validation                     *)

\* (x, y): top-left corner for the label centred at MIN_DISTANCE_FROM_STAR
sector_position(i, star_x, star_y, text_len) ==
    LET bbox         == textbbox(0, 0, text_len, Font.label)
        label_width  == bbox[3] - bbox[1]
        label_height == bbox[4] - bbox[2]
        center_x     == radial_x(star_x, i)
        center_y     == radial_y(star_y, i)
    IN  << TruncDiv(center_x - 500 * label_width, 1000),
           TruncDiv(center_y - 500 * label_height, 1000) >>

\* test_box of _find_label_position
test_box_at(pos, text_len) == Pad(textbbox(pos[1], pos[2], text_len, Font.label), 4)

\* label_box of _draw_premium_label
label_box_at(pos, text_len) == Pad(textbbox(pos[1], pos[2], text_len, Font.label), 8)

out_of_bounds(box, image_size) ==
    box[1] < 0 \/ box[2] < 0 \/ box[3] > image_size[1] \/ box[4] > image_size[2]

\* all_stars is the list of the mapped stars' positions
too_close_to_other_stars(label_box, current_star_x, current_star_y, all_stars) ==
    \E j \in 1..Len(all_stars) :
        /\ ~(all_stars[j][1] = current_star_x /\ all_stars[j][2] = current_star_y)
        /\ LET ex == 2 * all_stars[j][1] - (label_box[1] + label_box[3])
               ey == 2 * all_stars[j][2] - (label_box[2] + label_box[4])
           IN  ex * ex + ey * ey
                  < 4 * MIN_DISTANCE_FROM_OTHER_STARS * MIN_DISTANCE_FROM_OTHER_STARS

\* the sector loop without the test against the occupied boxes
sector_rejected_ignores_labels(pos, text_len, occupied, image_size, star_x, star_y, all_stars) ==
    LET test_box == test_box_at(pos, text_len)
    IN  \/ out_of_bounds(test_box, image_size)
        \/ too_close_to_other_stars(test_box, star_x, star_y, all_stars)

\* the three "continue" tests of the sector loop after the score test
sector_rejected(pos, text_len, occupied, image_size, star_x, star_y, all_stars) ==
    LET test_box == test_box_at(pos, text_len)
    IN  \/ out_of_bounds(test_box, image_size)
        \/ boxes_overlap(test_box, occupied)
        \/ too_close_to_other_stars(test_box, star_x, star_y, all_stars)

-----------------------------------------------------------------------------
(* Technology analysis and mapping                                         *)

\* int((count / max_count) * 100)
\* int((count / max_count) * 100): the float product truncates to this quotient for
\* every count up to 28 (the first difference is 29 / 50, which gives 57)
normalized_score(count, max_count) == (count * 100) \div max_count

RECURSIVE MaxSeq(_)
MaxSeq(s) == IF Len(s) = 1 THEN s[1]
             ELSE LET m == MaxSeq(Tail(s)) IN IF s[1] >= m THEN s[1] ELSE m

RECURSIVE found_techs(_, _)
\* the Counter's items in insertion order: (dictionary index, count), count > 0
found_techs(counts, j) ==
    IF j > Len(counts) THEN << >>
    ELSE (IF counts[j] > 0 THEN << << j, counts[j] >> >> ELSE << >>)
         \o found_techs(counts, j + 1)

\* _enrich_tech_data over the Counter's items in insertion order, not most_common()
enrich_tech_data_unsorted(counts) ==
    LET items == found_techs(counts, 1)
    IN  IF items = << >> THEN << >>
        ELSE LET max_count == MaxSeq([ j \in 1..Len(items) |-> items[j][2] ])
             IN  [ j \in 1..Len(items) |->
                     [ name      |-> KnownTechs[items[j][1]].name,
                       len       |-> KnownTechs[items[j][1]].len,
                       raw_count |-> items[j][2],
                       score     |-> normalized_score(items[j][2], max_count) ] ]

\* TechAnalyzer._enrich_tech_data over tech_counts.most_common()
enrich_tech_data(counts) ==
    LET items == found_techs(counts, 1)
    IN  IF items = << >> THEN << >>
        ELSE LET max_count == MaxSeq([ j \in 1..Len(items) |-> items[j][2] ])
                 common    == sort_desc(items)
             IN  [ j \in 1..Len(common) |->
                     [ name      |-> KnownTechs[common[j][1]].name,
                       len       |-> KnownTechs[common[j][1]].len,
                       raw_count |-> common[j][2],
                       score     |-> normalized_score(common[j][2], max_count) ] ]

\* a mapping for every technology, going round the stars again when they run out
build_mappings_every_tech(techs, stars) ==
    [ i \in 1..Len(techs) |-> [ star |-> stars[((i - 1) % Len(stars)) + 1], tech |-> techs[i] ] ]

\* step 7 of ConstellationOrchestrator.generate
build_mappings(techs, stars) ==
    LET num_mappings == Min2(Len(techs), Len(stars))
    IN  [ i \in 1..num_mappings |-> [ star |-> stars[i], tech |-> techs[i] ] ]

\* star_connection_counts left in star index order, without the sort
star_connection_order_unsorted(maps, conns) ==
    [ n \in 1..Len(maps) |->
        << n - 1, Cardinality({ j \in 1..Len(conns) : Incident(n - 1, conns[j]) }) >> ]

\* star_connection_counts of add_tech_labels, sorted most constrained first
star_connection_order(maps, conns) ==
    sort_desc([ n \in 1..Len(maps) |->
                  << n - 1, Cardinality({ j \in 1..Len(conns) : Incident(n - 1, conns[j]) }) >> ])


-----------------------------------------------------------------------------
(* Template catalog                                                        *)

\* utils/constellation_templates.py: every template with the number of its stars
\* and its connections (the positions of the stars play no part in the stages)
CONSTELLATIONS == <<
    [ name |-> "orion", stars |-> 7,
      connections |-> << <<0, 2>>, <<1, 4>>, <<2, 3>>, <<3, 4>>, <<2, 5>>, <<4, 6>> >> ],
    [ name |-> "cassiopeia", stars |-> 5,
      connections |-> << <<0, 1>>, <<1, 2>>, <<2, 3>>, <<3, 4>> >> ],
    [ name |-> "ursa_major", stars |-> 7,
      connections |-> << <<0, 1>>, <<1, 2>>, <<2, 3>>, <<3, 4>>, <<4, 5>>, <<5, 6>>, <<6, 3>> >> ],
    [ name |-> "pegasus", stars |-> 8,
      connections |-> << <<0, 1>>, <<1, 2>>, <<2, 3>>, <<3, 0>>, <<1, 5>>, <<5, 4>>, <<0, 6>>, <<6, 7>> >> ],
    [ name |-> "cygnus", stars |-> 9,
      connections |-> << <<0, 1>>, <<1, 2>>, <<2, 3>>, <<4, 5>>, <<5, 1>>, <<1, 6>>, <<6, 7>>, <<2, 8>> >> ],
    [ name |-> "draco", stars |-> 8,
      connections |-> << <<0, 1>>, <<1, 2>>, <<2, 3>>, <<3, 4>>, <<4, 5>>, <<5, 6>>, <<6, 7>> >> ],
    [ name |-> "lyra", stars |-> 5,
      connections |-> << <<0, 1>>, <<0, 2>>, <<1, 3>>, <<2, 4>>, <<3, 4>> >> ],
    [ name |-> "aquila", stars |-> 7,
      connections |-> << <<0, 2>>, <<1, 2>>, <<2, 3>>, <<2, 5>>, <<4, 5>>, <<5, 6>> >> ],
    [ name |-> "scorpius", stars |-> 12,
      connections |-> << <<0, 2>>, <<1, 2>>, <<10, 2>>, <<11, 2>>, <<2, 3>>, <<3, 4>>, <<4, 5>>, <<5, 6>>, <<6, 7>>, <<7, 8>>, <<8, 9>> >> ],
    [ name |-> "leo", stars |-> 9,
      connections |-> << <<0, 1>>, <<1, 2>>, <<2, 3>>, <<3, 4>>, <<4, 5>>, <<5, 6>>, <<2, 7>>, <<0, 8>> >> ],
    [ name |-> "andromeda", stars |-> 8,
      connections |-> << <<0, 1>>, <<1, 2>>, <<2, 3>>, <<1, 4>>, <<4, 6>>, <<2, 5>>, <<5, 7>> >> ],
    [ name |-> "perseus", stars |-> 10,
      connections |-> << <<0, 1>>, <<1, 2>>, <<2, 3>>, <<1, 4>>, <<4, 5>>, <<1, 9>>, <<9, 6>>, <<6, 7>>, <<6, 8>> >> ],
    [ name |-> "gemini", stars |-> 8,
      connections |-> << <<0, 2>>, <<2, 4>>, <<4, 6>>, <<1, 3>>, <<3, 5>>, <<5, 7>>, <<2, 3>> >> ] >>

\* a catalog file in which the first template has a connection to a star index
\* that its star list does not have
MalformedCatalog ==
    [ CONSTELLATIONS EXCEPT ![1].connections =
        Append(CONSTELLATIONS[1].connections, << 0, CONSTELLATIONS[1].stars >>) ]

\* the connections of template t with an index outside its star list
out_of_range(t) ==
    { j \in 1..Len(t.connections) :
        \E e \in 1..2 : t.connections[j][e] < 0 \/ t.connections[j][e] >= t.stars }

-----------------------------------------------------------------------------
(* ImageGenerator: quota attributes, validation                            *)

\* bounds of the quota model
DailyQuota == 2
MaxDay == 1
MaxRequests == 2

\* instance 1 is orchestrator.image_generator of routers/constellation.py;
\* instance 2 is any other ImageGenerator() of the process
Instances == { 1, 2 }

\* a name that an instance's __dict__ does not hold
Absent == 0 - 1

\* attribute lookup self.<name>: the instance's own value, else the class value
getattr(own, cls, name) == IF own[name] # Absent THEN own[name] ELSE cls[name]

\* a reset that moves the date and keeps the count
reset_if_new_day_keeps_count(own, cls, day) ==
    IF day > getattr(own, cls, "date")
    THEN [ count |-> getattr(own, cls, "count"), date |-> day ] ELSE own

\* "if today > self._quota_reset_date": the assignments go to the instance
reset_if_new_day(own, cls, day) ==
    IF day > getattr(own, cls, "date") THEN [ count |-> 0, date |-> day ] ELSE own

\* a check that lets one generation more through
quota_exceeded_strict(own, cls) == getattr(own, cls, "count") > DailyQuota

\* "if self._generation_count >= settings.daily_quota"
quota_exceeded(own, cls) == getattr(own, cls, "count") >= DailyQuota

\* "self._generation_count += 1": read by lookup, written to the instance
increment_count(own, cls) == [ own EXCEPT !.count = getattr(own, cls, "count") + 1 ]

\* a status that reads the attributes of the class
quota_status_class(own, cls) ==
    [ current_count |-> cls.count,
      max_quota     |-> DailyQuota,
      remaining     |-> DailyQuota - cls.count,
      reset_date    |-> cls.date ]

\* the dictionary of get_quota_status, after its own reset
quota_status(own, cls) ==
    [ current_count |-> getattr(own, cls, "count"),
      max_quota     |-> DailyQuota,
      remaining     |-> DailyQuota - getattr(own, cls, "count"),
      reset_date    |-> getattr(own, cls, "date") ]

\* what model.generate_images can answer: an image or an exception whose text
\* may hold "quota"/"429" or "safety"
RemoteAnswers ==
    { [ kind |-> "image", mode |-> m, size |-> z, black |-> b ] :
        m \in { "RGBA", "L" }, z \in { << 1024, 1024 >>, << 512, 512 >> }, b \in BOOLEAN }
    \cup { [ kind |-> "error", text |-> t ] : t \in { "quota", "safety", "other" } }

\* _convert_to_pil: any other mode is converted to RGBA
convert_to_pil(image) == [ image EXCEPT !.mode = "RGBA" ]

\* _validate_image: the exception it raises, or "none"
validate_image(image) ==
    IF image.mode \notin { "RGB", "RGBA" } THEN "ImageValidationError"
    ELSE IF image.size # << 1024, 1024 >> THEN "ImageValidationError"
    ELSE IF image.black THEN "ImageValidationError"
    ELSE "none"

\* the try/except of generate around the remote call, the conversion and the
\* validation: every exception raised inside leaves as a VertexAIError
remote_outcome(answer) ==
    IF answer.kind = "error"
    THEN [ kind |-> "VertexAIError",
           status_code |-> IF answer.text = "quota" THEN 429
                           ELSE IF answer.text = "safety" THEN 400 ELSE 0,
           cause |-> "remote" ]
    ELSE LET invalid == validate_image(convert_to_pil(answer))
         IN  IF invalid = "none"
             THEN [ kind |-> "none", status_code |-> 0, cause |-> "none" ]
             ELSE [ kind |-> "VertexAIError", status_code |-> 0, cause |-> invalid ]

\* a request that has not arrived
NoRequest ==
    [ pc |-> "none", inst |-> 0, suspended |-> FALSE, stale |-> FALSE, day |-> 0,
      count_seen |-> 0, count_before |-> 0, called |-> FALSE, outcome |-> "none",
      current_count |-> 0, max_quota |-> 0, status_code |-> 0, cause |-> "none" ]

\* no placement is in progress
placement_idle ==
    /\ pc = "idle"
    /\ tech_counts = << >>
    /\ technologies = << >>
    /\ star_positions = << >>
    /\ connections = << >>
    /\ title = 0
    /\ mappings = << >>
    /\ order = << >>
    /\ k = 0
    /\ sector_scores = << >>
    /\ visited = {}
    /\ position = None
    /\ occupied_boxes = << >>
    /\ attempts = << >>
    /\ error = "none"

\* generate has not been called
pipeline_idle ==
    /\ catalog = << >>
    /\ stage = "idle"
    /\ externals = [ parse |-> "ok", remote |-> [ kind |-> "error", text |-> "other" ] ]
    /\ ran = << >>
    /\ num_techs = 0
    /\ template = 0
    /\ mapping_count = 0
    /\ composer_input = None
    /\ raised = "none"
    /\ result = None

\* no helper is being called
helper_idle == helper = [ fn |-> "none" ]

\* the ImageGenerator class as the import leaves it, no instance used yet
generator_idle ==
    /\ class_attrs = [ count |-> 0, date |-> 0 ]
    /\ inst_attrs = [ g \in Instances |-> [ count |-> Absent, date |-> Absent ] ]
    /\ today = 0
    /\ requests = [ r \in 1..MaxRequests |-> NoRequest ]
    /\ running = 0
    /\ status = None
    /\ admitted = [ g \in Instances |-> [ day |-> 0, n |-> 0, ok |-> 0 ] ]

-----------------------------------------------------------------------------
(* Inputs                                                                  *)

\* lists of n distinct sites
StarLists(n) == { s \in [1..n -> Sites] : \A i, j \in 1..n : i # j => s[i] # s[j] }

\* all index pairs (a, b), a < b, of n stars
AllPairs(n) == { << a, b >> : a \in 0..(n - 1), b \in 0..(n - 1) } \ 
               { << a, b >> \in (0..(n - 1)) \X (0..(n - 1)) : a >= b }

RECURSIVE SetToSeq(_)
\* the pairs of S in lexicographic order
SetToSeq(S) ==
    IF S = {} THEN << >>
    ELSE LET m == CHOOSE p \in S : \A q \in S : p[1] < q[1] \/ (p[1] = q[1] /\ p[2] <= q[2])
         IN  << m >> \o SetToSeq(S \ {m})

ConnectionLists(n) == { SetToSeq(S) : S \in SUBSET AllPairs(n) }

\* a tight cluster: star 0 is linked to seven stars that stand 20 px around it
Cluster == << << 360, 160 >>, << 380, 160 >>, << 372, 176 >>, << 356, 180 >>,
              << 342, 169 >>, << 342, 151 >>, << 356, 140 >>, << 372, 144 >> >>
ClusterConnections == [ j \in 1..(Len(Cluster) - 1) |-> << 0, j >> ]

-----------------------------------------------------------------------------
(* State machine                                                           *)

Init ==
    /\ pc = "analyze"
    /\ tech_counts \in [1..Len(KnownTechs) -> 0..MaxCount]
    /\ \/ \E n \in 1..MaxStars :
             /\ star_positions \in StarLists(n)
             /\ connections \in ConnectionLists(n)
       \/ /\ star_positions = Cluster
          /\ connections = ClusterConnections
    /\ title \in TitleLens
    /\ technologies = << >>
    /\ mappings = << >>
    /\ order = << >>
    /\ k = 0
    /\ sector_scores = << >>
    /\ visited = {}
    /\ position = None
    /\ occupied_boxes = << >>
    /\ attempts = << >>
    /\ error = "none"
    /\ pipeline_idle
    /\ generator_idle
    /\ helper_idle

\* step 2 of generate: TechAnalyzer.analyze
Analyze ==
    /\ pc = "analyze"
    /\ technologies' = enrich_tech_data(tech_counts)
    /\ pc' = "map"
    /\ UNCHANGED << service_vars, tech_counts, star_positions, connections, title, mappings, order, k,
                    sector_scores, visited, position, occupied_boxes, attempts, error >>

\* step 7 of generate: one mapping per technology, up to the template's stars
BuildMappings ==
    /\ pc = "map"
    /\ mappings' = build_mappings(technologies, star_positions)
    /\ pc' = "compose"
    /\ UNCHANGED << service_vars, tech_counts, technologies, star_positions, connections, title, order, k,
                    sector_scores, visited, position, occupied_boxes, attempts, error >>

\* step 9 of generate: compose(composed_image, mappings, title) lacks the two
\* required arguments connections and star_positions
ComposeFromGenerate ==
    /\ pc = "compose"
    /\ pc' = "failed"
    /\ error' = "TypeError"
    /\ UNCHANGED << service_vars, tech_counts, technologies, star_positions, connections, title, mappings,
                    order, k, sector_scores, visited, position, occupied_boxes, attempts >>

\* compose(image, mappings, title, connections, star_positions): add_title,
\* then add_tech_labels up to the start of its loop
ComposeDirect ==
    /\ pc = "compose"
    /\ order' = star_connection_order(mappings, connections)
    /\ occupied_boxes' = << >>
    /\ k' = 1
    /\ pc' = "labels"
    /\ UNCHANGED << service_vars, tech_counts, technologies, star_positions, connections, title, mappings,
                    sector_scores, visited, position, attempts, error >>

star_idx == order[k][1]

all_star_positions == [ j \in 1..Len(mappings) |-> mappings[j].star ]

\* loop head of add_tech_labels and the scoring call of _find_label_position
BeginLabel ==
    /\ pc = "labels"
    /\ k <= Len(order)
    /\ sector_scores' = calculate_sector_scores(star_idx,
                            mappings[star_idx + 1].star[1], mappings[star_idx + 1].star[2],
                            connections, star_positions, occupied_boxes, ImageSize, title)
    /\ visited' = {}
    /\ position' = None
    /\ pc' = "sectors"
    /\ UNCHANGED << service_vars, tech_counts, technologies, star_positions, connections, title, mappings,
                    order, k, occupied_boxes, attempts, error >>

cur_star == mappings[star_idx + 1].star
cur_len == mappings[star_idx + 1].tech.len
tries == Cardinality(visited)

\* the validation of the sector of entry e fails
rejected(e) ==
    sector_rejected(sector_position(e[1], cur_star[1], cur_star[2], cur_len), cur_len,
                    occupied_boxes, ImageSize, cur_star[1], cur_star[2], all_star_positions)

\* "if score < -100: continue"
SkipSector ==
    /\ pc = "sectors"
    /\ \E e \in next_sectors(sector_scores, visited) :
          /\ e[2] < -100000
          /\ visited' = visited \cup { e[1] }
    /\ UNCHANGED << service_vars, pc, tech_counts, technologies, star_positions, connections, title,
                    mappings, order, k, sector_scores, position, occupied_boxes, attempts,
                    error >>

\* one of the three validation tests fails: continue
RejectSector ==
    /\ pc = "sectors"
    /\ \E e \in next_sectors(sector_scores, visited) :
          /\ ~(e[2] < -100000)
          /\ rejected(e)
          /\ visited' = visited \cup { e[1] }
    /\ UNCHANGED << service_vars, pc, tech_counts, technologies, star_positions, connections, title,
                    mappings, order, k, sector_scores, position, occupied_boxes, attempts,
                    error >>

\* return (x, y); the caller draws the label and appends its label_box
AcceptSector ==
    /\ pc = "sectors"
    /\ \E e \in next_sectors(sector_scores, visited) :
          LET pos == sector_position(e[1], cur_star[1], cur_star[2], cur_len)
          IN  /\ ~(e[2] < -100000)
              /\ ~rejected(e)
              /\ visited' = visited \cup { e[1] }
              /\ position' = pos
              /\ occupied_boxes' = Append(occupied_boxes, label_box_at(pos, cur_len))
              /\ attempts' = Append(attempts, [ star   |-> star_idx,
                                                sector |-> e[1],
                                                score  |-> e[2],
                                                tried  |-> tries + 1,
                                                pos    |-> pos,
                                                box    |-> label_box_at(pos, cur_len) ])
    /\ k' = k + 1
    /\ pc' = "labels"
    /\ UNCHANGED << service_vars, tech_counts, technologies, star_positions, connections, title, mappings,
                    order, sector_scores, error >>

\* the sector loop ends and the placement raises instead of returning None
UnplaceableRaises ==
    /\ pc = "sectors"
    /\ tries = Len(sector_scores)
    /\ pc' = "failed"
    /\ error' = "ValueError"
    /\ UNCHANGED << service_vars, tech_counts, technologies, star_positions, connections, title, mappings,
                    order, k, sector_scores, visited, position, occupied_boxes, attempts >>

\* the sector loop ends and the caller stops placing labels instead of continuing
UnplaceableBreaks ==
    /\ pc = "sectors"
    /\ tries = Len(sector_scores)
    /\ position' = None
    /\ attempts' = Append(attempts, [ star   |-> star_idx,
                                      sector |-> -1,
                                      score  |-> 0,
                                      tried  |-> tries,
                                      pos    |-> None,
                                      box    |-> None ])
    /\ k' = Len(order) + 1
    /\ pc' = "labels"
    /\ UNCHANGED << service_vars, tech_counts, technologies, star_positions, connections, title, mappings,
                    order, sector_scores, visited, occupied_boxes, error >>

\* the sector loop ends: return None; the caller logs a warning and continues
Unplaceable ==
    /\ pc = "sectors"
    /\ tries = Len(sector_scores)
    /\ position' = None
    /\ attempts' = Append(attempts, [ star   |-> star_idx,
                                      sector |-> -1,
                                      score  |-> 0,
                                      tried  |-> tries,
                                      pos    |-> None,
                                      box    |-> None ])
    /\ k' = k + 1
    /\ pc' = "labels"
    /\ UNCHANGED << service_vars, tech_counts, technologies, star_positions, connections, title, mappings,
                    order, sector_scores, visited, occupied_boxes, error >>

\* add_tech_labels returns; compose adds the watermark and returns
FinishCompose ==
    /\ pc = "labels"
    /\ k > Len(order)
    /\ pc' = "done"
    /\ UNCHANGED << service_vars, tech_counts, technologies, star_positions, connections, title, mappings,
                    order, k, sector_scores, visited, position, occupied_boxes, attempts,
                    error >>

Next ==
    \/ Analyze
    \/ BuildMappings
    \/ ComposeFromGenerate
    \/ ComposeDirect
    \/ BeginLabel
    \/ SkipSector
    \/ RejectSector
    \/ AcceptSector
    \/ Unplaceable
    \/ FinishCompose

Spec == Init /\ [][Next]_vars

-----------------------------------------------------------------------------
(* Stages of ConstellationOrchestrator.generate                            *)

\* bound: the most technologies an analysis finds
MaxTechs == 13

\* min(all_templates, key=number of stars): the first template of least size
smallest_template(cat) ==
    CHOOSE t \in 1..Len(cat) :
        /\ \A u \in 1..Len(cat) : cat[t].stars <= cat[u].stars
        /\ \A u \in 1..(t - 1) : cat[u].stars > cat[t].stars

\* the templates of S with at least least stars, or S when there is none
preferred(S, cat, least) ==
    LET P == { t \in S : cat[t].stars >= least } IN IF P # {} THEN P ELSE S

\* a selection that draws from the whole catalog, whatever the number of technologies
eligible_templates_any(num_technologies, cat) == 1..Len(cat)

\* _select_template: the list random.choice draws from
eligible_templates(num_technologies, cat) ==
    LET fitting  == { t \in 1..Len(cat) : cat[t].stars <= num_technologies }
        eligible == IF fitting = {} THEN { smallest_template(cat) } ELSE fitting
    IN  IF num_technologies >= 10 THEN preferred(eligible, cat, 8)
        ELSE IF num_technologies >= 5 THEN preferred(eligible, cat, 5)
        ELSE eligible

\* the connections ImageComposer.compose skips: an index >= len(star_positions)
skipped_by_composer(stars, conns) ==
    { j \in 1..Len(conns) : conns[j][1] >= stars \/ conns[j][2] >= stars }

\* the generation count of an instance: restarted with its counter, counted
\* when the counter is incremented
admitted_after(adm, own, cls, day) ==
    LET a == IF day > getattr(own, cls, "date") THEN [ day |-> day, n |-> 0, ok |-> 0 ]
             ELSE adm
    IN  IF quota_exceeded(reset_if_new_day(own, cls, day), cls) THEN a
        ELSE [ a EXCEPT !.n = a.n + 1 ]

\* the states in which a request reaches generate
PipelineInit ==
    /\ placement_idle
    /\ catalog \in { CONSTELLATIONS, MalformedCatalog }
    /\ stage = "load"
    /\ externals \in [ parse : { "ok", "CVParserError" }, remote : RemoteAnswers ]
    /\ ran = << >>
    /\ num_techs = 0
    /\ template = 0
    /\ mapping_count = 0
    /\ composer_input = None
    /\ raised = "none"
    /\ result = None
    /\ class_attrs = [ count |-> 0, date |-> 0 ]
    /\ today \in 0..MaxDay
    /\ \E own \in { [ count |-> Absent, date |-> Absent ] }
                  \cup { [ count |-> c, date |-> d ] : c \in 0..DailyQuota, d \in 0..today } :
          /\ inst_attrs = [ g \in Instances |->
                              IF g = 1 THEN own ELSE [ count |-> Absent, date |-> Absent ] ]
          /\ admitted = [ g \in Instances |->
                            IF g = 1 /\ own.count # Absent
                            THEN [ day |-> own.date, n |-> own.count, ok |-> own.count ]
                            ELSE [ day |-> 0, n |-> 0, ok |-> 0 ] ]
    /\ requests = [ r \in 1..MaxRequests |-> NoRequest ]
    /\ running = 0
    /\ status = None
    /\ helper_idle

\* import of utils.constellation_templates: the dictionary literal is bound to
\* CONSTELLATIONS; nothing reads the connections
LoadCatalog ==
    /\ stage = "load"
    /\ stage' = "parse"
    /\ UNCHANGED << placement_vars, helper_vars, generator_vars, catalog, externals, ran, num_techs,
                    template, mapping_count, composer_input, raised, result >>

\* step 1: CVParser.extract_text
ParseCV ==
    /\ stage = "parse"
    /\ ran' = Append(ran, "parse")
    /\ IF externals.parse = "ok"
       THEN stage' = "analyze" /\ raised' = raised
       ELSE stage' = "raised" /\ raised' = externals.parse
    /\ UNCHANGED << placement_vars, helper_vars, generator_vars, catalog, externals, num_techs, template,
                    mapping_count, composer_input, result >>

\* step 2: TechAnalyzer.analyze
AnalyzeTechnologies ==
    /\ stage = "analyze"
    /\ ran' = Append(ran, "analyze")
    /\ num_techs' \in 0..MaxTechs
    /\ stage' = "title"
    /\ UNCHANGED << placement_vars, helper_vars, generator_vars, catalog, externals, template,
                    mapping_count, composer_input, raised, result >>

\* steps 3 and 4: TitleGenerator.generate, PromptGenerator.generate_background_only
GenerateTitleAndPrompt ==
    /\ stage = "title"
    /\ ran' = ran \o << "title", "prompt" >>
    /\ stage' = "image"
    /\ UNCHANGED << placement_vars, helper_vars, generator_vars, catalog, externals, num_techs, template,
                    mapping_count, composer_input, raised, result >>

\* step 5 with an except clause that logs the exception of the generator and goes on
GenerateImageSwallows ==
    /\ stage = "image"
    /\ ran' = Append(ran, "image")
    /\ stage' = "select"
    /\ UNCHANGED << placement_vars, helper_vars, generator_vars, catalog, externals, num_techs, template,
                    mapping_count, composer_input, raised, result >>

\* step 5: await self.image_generator.generate(background_prompt), which has no
\* suspension point of its own
GenerateImage ==
    /\ stage = "image"
    /\ ran' = Append(ran, "image")
    /\ LET own == reset_if_new_day(inst_attrs[1], class_attrs, today)
           out == remote_outcome(externals.remote)
       IN  /\ admitted' = [ admitted EXCEPT ![1] =
                              LET a == admitted_after(@, inst_attrs[1], class_attrs, today)
                              IN  IF ~quota_exceeded(own, class_attrs) /\ out.kind = "none"
                                  THEN [ a EXCEPT !.ok = a.ok + 1 ] ELSE a ]
           /\ IF quota_exceeded(own, class_attrs)
              THEN /\ inst_attrs' = [ inst_attrs EXCEPT ![1] = own ]
                   /\ raised' = "QuotaExceededError"
                   /\ stage' = "raised"
              ELSE /\ inst_attrs' = [ inst_attrs EXCEPT ![1] = increment_count(own, class_attrs) ]
                   /\ IF out.kind = "none"
                      THEN stage' = "select" /\ raised' = raised
                      ELSE stage' = "raised" /\ raised' = out.kind
    /\ UNCHANGED << placement_vars, helper_vars, class_attrs, today, requests, running, status, catalog,
                    externals, num_techs, template, mapping_count, composer_input, result >>

\* step 6: _select_template(len(technologies), hash(text))
SelectTemplate ==
    /\ stage = "select"
    /\ ran' = Append(ran, "select")
    /\ template' \in eligible_templates(num_techs, catalog)
    /\ stage' = "map"
    /\ UNCHANGED << placement_vars, helper_vars, generator_vars, catalog, externals, num_techs,
                    mapping_count, composer_input, raised, result >>

\* step 7: num_mappings = min(total_techs, available_positions) and the mappings
MapTechnologies ==
    /\ stage = "map"
    /\ ran' = Append(ran, "map")
    /\ mapping_count' = Min2(num_techs, catalog[template].stars)
    /\ stage' = "composer"
    /\ UNCHANGED << placement_vars, helper_vars, generator_vars, catalog, externals, num_techs, template,
                    composer_input, raised, result >>

\* step 8: ImageComposer.compose(background, stars[:num_mappings], connections)
ComposeLayers ==
    /\ stage = "composer"
    /\ ran' = Append(ran, "composer")
    /\ composer_input' =
          << [ stars       |-> mapping_count,
               connections |-> catalog[template].connections,
               skipped     |-> skipped_by_composer(mapping_count,
                                                   catalog[template].connections) ] >>
    /\ stage' = "overlay"
    /\ UNCHANGED << placement_vars, helper_vars, generator_vars, catalog, externals, num_techs, template,
                    mapping_count, raised, result >>

\* step 9: self.text_overlay.compose(composed_image, mappings, title) lacks the
\* arguments connections and star_positions: TypeError, raised again by the except
AddTextOverlays ==
    /\ stage = "overlay"
    /\ ran' = Append(ran, "overlay")
    /\ raised' = "TypeError"
    /\ stage' = "raised"
    /\ UNCHANGED << placement_vars, helper_vars, generator_vars, catalog, externals, num_techs, template,
                    mapping_count, composer_input, result >>

PipelineNext ==
    \/ LoadCatalog
    \/ ParseCV
    \/ AnalyzeTechnologies
    \/ GenerateTitleAndPrompt
    \/ GenerateImage
    \/ SelectTemplate
    \/ MapTechnologies
    \/ ComposeLayers
    \/ AddTextOverlays

PipelineSpec == PipelineInit /\ [][PipelineNext]_vars

-----------------------------------------------------------------------------
(* Claims on the label placement                                            *)

\* the run of add_tech_labels has ended and compose has returned
run_ended == pc = "done"

\* the axis-aligned overlap test on two rectangles, as the claims state it
rects_overlap(a, b) == ~(a[3] < b[1] \/ a[1] > b[3] \/ a[4] < b[2] \/ a[2] > b[4])

\* number of connections with an end at star s
incident_edges(s) ==
    Cardinality({ j \in 1..Len(connections) : connections[j][1] = s \/ connections[j][2] = s })

\* C1: after a run of add_tech_labels, no two distinct placed labels have recorded
\* label rectangles that overlap. The code validates the rectangle padded by 4 and
\* records the rectangle padded by 8, so two recorded rectangles can overlap.
C1_NoOverlap ==
    run_ended =>
        \A i, j \in 1..Len(occupied_boxes) :
            i # j => ~rects_overlap(occupied_boxes[i], occupied_boxes[j])

\* C2: after a run of add_tech_labels, no placed label rectangle overlaps the title
\* zone or the watermark zone. The code starts with no occupied region and uses the
\* zones only in the score of a sector, so a recorded rectangle can overlap a zone.
C2_Exclusion ==
    run_ended =>
        \A i \in 1..Len(occupied_boxes) :
            /\ ~rects_overlap(occupied_boxes[i], get_title_zone(ImageSize, title))
            /\ ~rects_overlap(occupied_boxes[i], get_watermark_zone(ImageSize))

\* C3: every recorded label rectangle lies inside the canvas: x1 >= 0, y1 >= 0,
\* x2 < w and y2 < h. The code tests the rectangle padded by 4, and with x2 > w and
\* y2 > h, so the recorded rectangle can leave the canvas.
C3_Boundary ==
    \A i \in 1..Len(occupied_boxes) :
        /\ occupied_boxes[i][1] >= 0
        /\ occupied_boxes[i][2] >= 0
        /\ occupied_boxes[i][3] < ImageSize[1]
        /\ occupied_boxes[i][4] < ImageSize[2]

\* C4: the centre of every placed label rectangle is at least
\* MIN_DISTANCE_FROM_OTHER_STARS away from every star of the graph other than the
\* anchor star of the label. The code tests the stars of the mappings only, so the
\* centre can be nearer to a star that carries no technology.
C4_StarProximity ==
    \A i \in 1..Len(attempts) :
        attempts[i].pos # None =>
            \A s \in 1..Len(star_positions) :
                s # attempts[i].star + 1 =>
                    LET ex == 2 * star_positions[s][1] - (attempts[i].box[1] + attempts[i].box[3])
                        ey == 2 * star_positions[s][2] - (attempts[i].box[2] + attempts[i].box[4])
                    IN  ex * ex + ey * ey
                           >= 4 * MIN_DISTANCE_FROM_OTHER_STARS * MIN_DISTANCE_FROM_OTHER_STARS

\* how far a run has come: every step of the program raises it, and it is bounded
\* by the number of labels and of sectors
run_progress ==
    CASE pc = "analyze" -> 0
      [] pc = "map"     -> 1
      [] pc = "compose" -> 2
      [] pc = "labels"  -> 3 + 14 * k
      [] pc = "sectors" -> 4 + 14 * k + Cardinality(visited)
      [] OTHER          -> 3 + 14 * (Len(mappings) + 2)

\* C5: placing one label visits at most 12 sectors and returns a position or None;
\* add_tech_labels raises nothing and has a result for every label when it ends;
\* the sector loop has a next sector or is over, and every step of a run raises the
\* bounded run_progress, so nothing loops and every run ends.
C5_GracefulDegradation ==
    /\ [](/\ Cardinality(visited) <= 12
          /\ pc = "sectors" => Len(sector_scores) = 12
          /\ \A i \in 1..Len(attempts) :
                /\ attempts[i].tried <= 12
                /\ \/ attempts[i].pos = None
                   \/ attempts[i].pos \in Int \X Int
          /\ pc \in { "labels", "sectors", "done" } => error = "none"
          /\ pc = "failed" => k = 0
          /\ run_ended => Len(attempts) = Len(mappings)
          /\ run_progress <= 3 + 14 * (Len(mappings) + 2)
          /\ pc = "sectors" =>
                \/ Cardinality(visited) = Len(sector_scores)
                \/ next_sectors(sector_scores, visited) # {})
    /\ [][run_progress' > run_progress]_vars

\* a run has ended in which the star linked to seven others got the first label
\* and a label of the cluster was unplaceable after twelve sectors
C5_Witness ==
    /\ run_ended
    /\ Len(attempts) > 0
    /\ incident_edges(attempts[1].star) >= 7
    /\ \E i \in 1..Len(attempts) : attempts[i].pos = None /\ attempts[i].tried = 12

\* C6: labels are attempted by descending number of edges at the anchor star and,
\* for the same number, by ascending star index: no label is attempted before one
\* whose anchor has more edges.
C6_ProcessingOrder ==
    \A i, j \in 1..Len(attempts) :
        i < j =>
            \/ incident_edges(attempts[i].star) > incident_edges(attempts[j].star)
            \/ /\ incident_edges(attempts[i].star) = incident_edges(attempts[j].star)
               /\ attempts[i].star < attempts[j].star

\* a run has ended in which the star of higher index had more edges and was
\* attempted first
C6_Witness ==
    /\ run_ended
    /\ Len(attempts) = 2
    /\ attempts[1].star > attempts[2].star
    /\ incident_edges(attempts[1].star) > incident_edges(attempts[2].star)

\* the recorded rectangles of the placed labels, in the order of the attempts
RECURSIVE placed_boxes(_)
placed_boxes(as) ==
    IF as = << >> THEN << >>
    ELSE (IF Head(as).pos = None THEN << >> ELSE << Head(as).box >>) \o placed_boxes(Tail(as))

\* C7: an unplaceable label is skipped alone: the run goes on without error, and
\* when it has ended every label of the mappings has been attempted and the
\* rectangles of all placed labels are recorded (the labels that were drawn).
C7_UnplaceableIsSkipped ==
    (\E i \in 1..Len(attempts) : attempts[i].pos = None) =>
        /\ error = "none"
        /\ pc \in { "labels", "sectors", "done" }
        /\ occupied_boxes = placed_boxes(attempts)
        /\ run_ended => Len(attempts) = Len(mappings)

\* a run has ended in which a label was unplaceable and a label attempted after it
\* was placed
C7_Witness ==
    /\ run_ended
    /\ \E i, j \in 1..Len(attempts) :
          i < j /\ attempts[i].pos = None /\ attempts[j].pos # None

\* C9: the number of labels placed is at most min(number of stars, number of
\* detected technologies), and no star receives two labels.
C9_MappingBound ==
    LET stars == Len(star_positions)
        techs == Cardinality({ t \in 1..Len(tech_counts) : tech_counts[t] > 0 })
    IN  /\ Len(occupied_boxes) <= (IF stars < techs THEN stars ELSE techs)
        /\ Len(attempts) <= (IF stars < techs THEN stars ELSE techs)
        /\ \A i, j \in 1..Len(attempts) : i # j => attempts[i].star # attempts[j].star
        /\ \A i \in 1..Len(attempts) : attempts[i].star \in 0..(stars - 1)

\* a run has ended with fewer stars than technologies and a label on every star
C9_Witness ==
    /\ run_ended
    /\ Len(star_positions) < Len(technologies)
    /\ Len(occupied_boxes) = Len(star_positions)

\* C10: the orchestrator pairs star i with the technology of i-th highest score:
\* the scores do not rise along the star index, and star 0 has the score 100.
C10_DescendingScores ==
    pc \notin { "analyze", "map" } =>
        /\ \A i \in 1..Len(mappings) :
              /\ mappings[i].star = star_positions[i]
              /\ mappings[i].tech.raw_count = tech_counts[CHOOSE t \in 1..Len(KnownTechs) :
                                                 KnownTechs[t].name = mappings[i].tech.name]
              /\ Cardinality({ t \in 1..Len(tech_counts) :
                                 tech_counts[t] > mappings[i].tech.raw_count }) < i
        /\ \A i, j \in 1..Len(mappings) :
              i < j => mappings[i].tech.score >= mappings[j].tech.score
        /\ Len(mappings) > 0 => mappings[1].tech.score = 100

\* the mapping is built, and the technology found second in the dictionary has the
\* higher score and is on star 0
C10_Witness ==
    /\ pc = "compose"
    /\ Len(mappings) = 2
    /\ tech_counts[1] < tech_counts[2]
    /\ mappings[1].tech.score > mappings[2].tech.score

-----------------------------------------------------------------------------
(* Claims on the stages of generate                                        *)

\* C11: a template with a connection to a star index outside its star list is
\* rejected with a configuration error when the catalog is loaded: nothing runs
\* after the load and the edge never reaches the compositor. The module only binds
\* a dictionary literal, so the load succeeds and the edge reaches the compositor.
C11_MalformedTemplateRejected ==
    (\E t \in 1..Len(catalog) : out_of_range(catalog[t]) # {}) =>
        /\ stage \in { "load", "raised" }
        /\ stage = "raised" => raised = "ConfigurationError" /\ ran = << >>
        /\ composer_input = None

\* C12: when text extraction, analysis and remote generation succeed and the
\* quota admits the generation, no stage of generate fails (and generate goes on
\* to upload and to return a result). The call of TextOverlayService.compose lacks
\* two required arguments, so the overlay stage raises TypeError.
C12_SuccessfulPipeline ==
    (/\ externals.parse = "ok"
     /\ externals.remote.kind = "image"
     /\ externals.remote.size = << 1024, 1024 >>
     /\ ~externals.remote.black
     /\ raised # "QuotaExceededError") =>
        /\ stage # "raised"
        /\ raised = "none"

\* the stages of generate that the model has, in the order of the code
StageOrder ==
    << "parse", "analyze", "title", "prompt", "image", "select", "map", "composer", "overlay" >>

\* C13: when a stage of generate raises, generate raises that exception with its
\* kind, the stage that raised is the last that ran (every stage before it ran once,
\* in order, no stage after it), and no result is returned; a failed parse or a
\* failed remote generation is never passed over.
C13_FailureSurfacing ==
    /\ ran = SubSeq(StageOrder, 1, Len(ran))
    /\ (raised # "none") <=> (stage = "raised")
    /\ stage = "raised" =>
          /\ result = None
          /\ raised = "CVParserError" <=> (Len(ran) = 1 /\ externals.parse # "ok")
          /\ raised \in { "QuotaExceededError", "VertexAIError" } => ran[Len(ran)] = "image"
          /\ raised = "VertexAIError" =>
                externals.remote.kind = "error" \/ externals.remote.size # << 1024, 1024 >>
                   \/ externals.remote.black
          /\ raised = "TypeError" => ran[Len(ran)] = "overlay"
    /\ (Len(ran) >= 1 /\ externals.parse # "ok") => raised = "CVParserError"
    /\ (Len(ran) >= 5 /\ (externals.remote.kind = "error"
                             \/ externals.remote.size # << 1024, 1024 >>
                             \/ externals.remote.black)) =>
          raised \in { "QuotaExceededError", "VertexAIError" }

\* generate has raised the QuotaExceededError of the image stage and the remote
\* generation would have failed as well
C13_Witness ==
    /\ stage = "raised"
    /\ raised = "QuotaExceededError"
    /\ ran = SubSeq(StageOrder, 1, 5)
    /\ externals.remote.kind = "error"

\* C20: _select_template returns a template with at most n stars when the catalog
\* has one and the smallest template otherwise; for n >= 5 the template has at
\* least 5 stars; the mapping has min(n, stars of the template) entries.
C20_TemplateSelection ==
    template # 0 =>
        LET chosen == catalog[template].stars
            fits   == \E u \in 1..Len(catalog) : catalog[u].stars <= num_techs
        IN  /\ fits => chosen <= num_techs
            /\ ~fits => \A u \in 1..Len(catalog) : chosen <= catalog[u].stars
            /\ num_techs >= 5 => chosen >= 5
            /\ Len(ran) >= 7 =>
                  /\ mapping_count <= num_techs
                  /\ mapping_count <= chosen
                  /\ mapping_count = num_techs \/ mapping_count = chosen

\* the mapping is built for more technologies than the selected template has
\* stars: it is truncated to the stars
C20_Witness ==
    /\ Len(ran) >= 7
    /\ template # 0
    /\ num_techs > catalog[template].stars
    /\ mapping_count = catalog[template].stars

-----------------------------------------------------------------------------
(* Requests on the event loop and the quota of ImageGenerator              *)

\* the ghost count of an instance after its counter was looked at on a day
ghost_reset(adm, own, cls, day) ==
    IF day > getattr(own, cls, "date") THEN [ day |-> day, n |-> 0, ok |-> 0 ] ELSE adm

\* a handler that has answered is gone
forget(reqs) ==
    [ r \in DOMAIN reqs |-> IF reqs[r].pc = "done" THEN NoRequest ELSE reqs[r] ]

\* the handlers that are between their arrival and their answer
in_flight(reqs) == { r \in DOMAIN reqs : reqs[r].pc \notin { "none", "done" } }

\* the process after the import: no request, no instance has written an attribute
GeneratorInit ==
    /\ placement_idle
    /\ pipeline_idle
    /\ generator_idle
    /\ helper_idle

\* POST /api/generate-constellation for the generator g: the handler runs up to
\* "await file.read()", its only suspension point
Arrive(r, g) ==
    /\ running = 0
    /\ r \notin in_flight(requests)
    /\ \A q \in 1..(r - 1) : q \in in_flight(requests)
    /\ requests' = [ forget(requests) EXCEPT
                        ![r] = [ NoRequest EXCEPT !.pc = "reading", !.inst = g ] ]
    /\ status' = None
    /\ UNCHANGED << placement_vars, helper_vars, pipeline_vars, class_attrs, inst_attrs, today, running,
                    admitted >>

\* the handler is resumed and runs into ImageGenerator.generate: reset and check
\* of _check_and_update_quota; yields tells whether the event loop gets control
\* back after the check
enter_generate(r, yields) ==
    /\ running = 0
    /\ requests[r].pc = "reading"
    /\ LET g     == requests[r].inst
           own0  == inst_attrs[g]
           own   == reset_if_new_day(own0, class_attrs, today)
           count == getattr(own, class_attrs, "count")
           seen  == [ requests[r] EXCEPT !.stale = today > getattr(own0, class_attrs, "date"),
                                         !.day = today,
                                         !.count_seen = getattr(own0, class_attrs, "count"),
                                         !.count_before = count ]
       IN  /\ inst_attrs' = [ inst_attrs EXCEPT ![g] = own ]
           /\ admitted' = [ admitted EXCEPT ![g] = admitted_after(@, own0, class_attrs, today) ]
           /\ IF quota_exceeded(own, class_attrs)
              THEN /\ requests' = [ forget(requests) EXCEPT ![r] =
                                      [ seen EXCEPT !.pc = "done",
                                                    !.outcome = "QuotaExceededError",
                                                    !.current_count = count,
                                                    !.max_quota = DailyQuota ] ]
                   /\ running' = 0
              ELSE /\ requests' = [ forget(requests) EXCEPT ![r] =
                                      [ seen EXCEPT !.pc = "admitted", !.suspended = yields ] ]
                   /\ running' = IF yields THEN 0 ELSE r
    /\ status' = None
    /\ UNCHANGED << placement_vars, helper_vars, pipeline_vars, class_attrs, today >>

\* a check after which the request is suspended
CheckQuotaYields(r) == enter_generate(r, TRUE)

\* lines 117-130 run with no await between them and the increment
CheckQuota(r) == enter_generate(r, FALSE)

\* "self._generation_count += 1"
Increment(r) ==
    /\ requests[r].pc = "admitted"
    /\ running = r \/ (running = 0 /\ requests[r].suspended)
    /\ LET g == requests[r].inst
       IN  inst_attrs' = [ inst_attrs EXCEPT ![g] = increment_count(@, class_attrs) ]
    /\ requests' = [ forget(requests) EXCEPT ![r].pc = "calling", ![r].suspended = FALSE ]
    /\ running' = r
    /\ status' = None
    /\ UNCHANGED << placement_vars, helper_vars, pipeline_vars, class_attrs, today, admitted >>

\* a remote call that gives the generation back when it fails
RemoteCallRollsBack(r) ==
    /\ requests[r].pc = "calling"
    /\ running = r
    /\ \E answer \in RemoteAnswers :
          LET out == remote_outcome(answer)
              g   == requests[r].inst
          IN  /\ requests' = [ forget(requests) EXCEPT ![r].pc = "done",
                                                       ![r].called = TRUE,
                                                       ![r].outcome = out.kind,
                                                       ![r].status_code = out.status_code,
                                                       ![r].cause = out.cause ]
              /\ admitted' = [ admitted EXCEPT ![g].ok = IF out.kind = "none" THEN @ + 1 ELSE @ ]
              /\ inst_attrs' = IF out.kind = "none" THEN inst_attrs
                               ELSE [ inst_attrs EXCEPT ![g].count = @ - 1 ]
    /\ running' = 0
    /\ status' = None
    /\ UNCHANGED << placement_vars, helper_vars, pipeline_vars, class_attrs, today >>

\* the try block: remote call, conversion, validation; then the handler answers
RemoteCall(r) ==
    /\ requests[r].pc = "calling"
    /\ running = r
    /\ \E answer \in RemoteAnswers :
          LET out == remote_outcome(answer)
              g   == requests[r].inst
          IN  /\ requests' = [ forget(requests) EXCEPT ![r].pc = "done",
                                                       ![r].called = TRUE,
                                                       ![r].outcome = out.kind,
                                                       ![r].status_code = out.status_code,
                                                       ![r].cause = out.cause ]
              /\ admitted' = [ admitted EXCEPT ![g].ok = IF out.kind = "none" THEN @ + 1 ELSE @ ]
    /\ running' = 0
    /\ status' = None
    /\ UNCHANGED << placement_vars, helper_vars, pipeline_vars, class_attrs, inst_attrs, today >>

\* get_quota_status of the generator g, between two handlers
GetQuotaStatus(g) ==
    /\ running = 0
    /\ LET own == reset_if_new_day(inst_attrs[g], class_attrs, today)
           adm == ghost_reset(admitted[g], inst_attrs[g], class_attrs, today)
           st  == quota_status(own, class_attrs)
       IN  /\ inst_attrs' = [ inst_attrs EXCEPT ![g] = own ]
           /\ admitted' = [ admitted EXCEPT ![g] = adm ]
           /\ status' = << [ inst |-> g,
                             day |-> today,
                             stale |-> today > getattr(inst_attrs[g], class_attrs, "date"),
                             count_seen |-> getattr(inst_attrs[g], class_attrs, "count"),
                             current_count |-> st.current_count,
                             max_quota |-> st.max_quota,
                             remaining |-> st.remaining,
                             reset_date |-> st.reset_date,
                             n |-> adm.n,
                             ok |-> adm.ok ] >>
    /\ requests' = forget(requests)
    /\ UNCHANGED << placement_vars, helper_vars, pipeline_vars, class_attrs, today, running >>

\* date.today() moves on; it is read once per handler, at the check
NewDay ==
    /\ running = 0
    /\ today < MaxDay
    /\ today' = today + 1
    /\ requests' = forget(requests)
    /\ status' = None
    /\ UNCHANGED << placement_vars, helper_vars, pipeline_vars, class_attrs, inst_attrs, running, admitted >>

GeneratorNext ==
    \/ \E r \in 1..MaxRequests, g \in Instances : Arrive(r, g)
    \/ \E r \in 1..MaxRequests : CheckQuota(r)
    \/ \E r \in 1..MaxRequests : Increment(r)
    \/ \E r \in 1..MaxRequests : RemoteCall(r)
    \/ \E g \in Instances : GetQuotaStatus(g)
    \/ NewDay

GeneratorSpec == GeneratorInit /\ [][GeneratorNext]_vars

-----------------------------------------------------------------------------
(* Claims on the quota                                                     *)

\* self._generation_count and self._quota_reset_date as the generator g reads them
count_of(g) == getattr(inst_attrs[g], class_attrs, "count")
date_of(g) == getattr(inst_attrs[g], class_attrs, "date")

\* C14: when the count has reached the daily quota (and no reset is due),
\* generate raises QuotaExceededError with the current count and the maximum,
\* does not call the remote model and leaves the counter as it was.
C14_QuotaEnforcement ==
    /\ [](\A r \in 1..MaxRequests :
             requests[r].outcome = "QuotaExceededError" =>
                /\ ~requests[r].called
                /\ requests[r].pc = "done"
                /\ requests[r].max_quota = DailyQuota
                /\ requests[r].current_count >= DailyQuota)
    /\ [][\A r \in 1..MaxRequests :
             (/\ requests[r].pc = "reading"
              /\ requests'[r].pc # "reading"
              /\ count_of(requests[r].inst) >= DailyQuota
              /\ today <= date_of(requests[r].inst)) =>
                /\ requests'[r].pc = "done"
                /\ requests'[r].outcome = "QuotaExceededError"
                /\ requests'[r].current_count = count_of(requests[r].inst)
                /\ getattr(inst_attrs'[requests[r].inst], class_attrs', "count")
                      = count_of(requests[r].inst)]_vars

\* a request found the counter at the quota on the day of the counter and was
\* answered with QuotaExceededError
C14_Witness ==
    \E r \in 1..MaxRequests :
        /\ requests[r].outcome = "QuotaExceededError"
        /\ ~requests[r].stale
        /\ requests[r].count_seen = DailyQuota

\* C15: from a reset counter, on one day, after n generate calls that all
\* succeeded, get_quota_status reports current_count = n and
\* remaining = daily quota - n.
C15_QuotaCounting ==
    status # None =>
        LET s == status[1]
        IN  s.n = s.ok =>
               /\ s.current_count = s.ok
               /\ s.remaining = DailyQuota - s.ok
               /\ s.max_quota = DailyQuota

\* the status after as many successful generations as the quota allows
C15_Witness ==
    /\ status # None
    /\ status[1].ok = DailyQuota
    /\ status[1].n = DailyQuota
    /\ status[1].remaining = 0

\* the generations that the generator g admitted on the current day
admitted_today(g) == IF admitted[g].day = today THEN admitted[g].n ELSE 0

\* C16: the counter is one value shared by all instances, so that the generations
\* admitted on one day by all instances together never exceed the daily quota.
\* The counter is written to the instance, so that each instance counts alone.
C16_SharedCounter ==
    admitted_today(1) + admitted_today(2) <= DailyQuota

\* C17: the check and the increment of a request are not interleaved with those
\* of another request: at most one request is between its check and its answer,
\* between handlers the counter equals the number of admitted requests (no
\* increment is lost), and the counter never exceeds the daily quota.
C17_ConcurrentRequests ==
    /\ Cardinality({ r \in 1..MaxRequests : requests[r].pc \in { "admitted", "calling" } }) <= 1
    /\ \A g \in Instances :
          /\ count_of(g) <= DailyQuota
          /\ running = 0 => count_of(g) = admitted[g].n

\* two requests for the same generator are in flight; one took the last
\* generation of the day while the other waits for its body
C17_Witness ==
    \E r1, r2 \in 1..MaxRequests :
        /\ requests[r1].pc = "calling"
        /\ requests[r2].pc = "reading"
        /\ requests[r1].inst = requests[r2].inst
        /\ count_of(requests[r1].inst) = DailyQuota

\* C18: when today is later than the stored date, the next get_quota_status or
\* generate of the instance sets the count to 0 and the date to today before it
\* reports or counts, whatever the count was.
C18_DailyReset ==
    /\ [](/\ (status # None /\ status[1].stale) =>
                /\ status[1].current_count = 0
                /\ status[1].remaining = DailyQuota
                /\ status[1].reset_date = status[1].day
          /\ \A r \in 1..MaxRequests :
                (requests[r].pc \in { "admitted", "calling", "done" } /\ requests[r].stale) =>
                    /\ requests[r].count_before = 0
                    /\ requests[r].outcome # "QuotaExceededError")
    /\ [][\A g \in Instances :
             (/\ today > date_of(g)
              /\ \/ status' # None /\ status'[1].inst = g
                 \/ \E r \in 1..MaxRequests :
                       /\ requests[r].pc = "reading"
                       /\ requests[r].inst = g
                       /\ requests'[r].pc # "reading") =>
                inst_attrs'[g] = [ count |-> 0, date |-> today ]]_vars

\* a request arrived the day after the quota was used up and was served
C18_Witness ==
    \E r \in 1..MaxRequests :
        /\ requests[r].pc = "done"
        /\ requests[r].stale
        /\ requests[r].count_seen = DailyQuota
        /\ requests[r].count_before = 0
        /\ requests[r].outcome = "none"

\* C19: generate raises ImageValidationError when the image of the remote model
\* is invalid. The validation runs inside the try block whose except clause
\* turns every exception into VertexAIError.
C19_ValidationErrorKind ==
    \A r \in 1..MaxRequests :
        (requests[r].pc = "done" /\ requests[r].cause = "ImageValidationError") =>
            requests[r].outcome = "ImageValidationError"

-----------------------------------------------------------------------------
(* Single calls of the helper functions                                    *)

\* no call is in progress in the rest of the service
HelperInit ==
    /\ placement_idle
    /\ pipeline_idle
    /\ generator_idle
    /\ helper_idle

\* offsets (dx, dy) from a star to the other end of one of its connections
EdgeOffsets == { o \in (-2..2) \X (-2..2) : o # << 0, 0 >> }

\* the centre of sector i, i * sector_size, in mdeg
sector_centre(i) == i * (360000 \div NUM_SECTORS)

\* _min_angular_distance(sector_angle, conn_angle) as PENALTY 1 calls it
CallMinAngularDistance ==
    /\ helper.fn = "none"
    /\ \E i \in 0..(NUM_SECTORS - 1), o \in EdgeOffsets :
          LET sector_angle == sector_centre(i)
              conn_angle   == atan2(o[2], o[1])
          IN  helper' = [ fn      |-> "min_angular_distance",
                          angle1  |-> sector_angle,
                          angle2  |-> conn_angle,
                          ret     |-> min_angular_distance(sector_angle, conn_angle),
                          swapped |-> min_angular_distance(conn_angle, sector_angle) ]
    /\ UNCHANGED << placement_vars, pipeline_vars, generator_vars >>

\* PENALTY 1 of one sector for one incident connection
CallEdgePenalty ==
    /\ helper.fn = "none"
    /\ \E i \in 0..(NUM_SECTORS - 1), o \in EdgeOffsets :
          LET sector_angle == sector_centre(i)
              conn_angle   == atan2(o[2], o[1])
          IN  helper' = [ fn     |-> "edge_penalty",
                          angle1 |-> sector_angle,
                          angle2 |-> conn_angle,
                          ret    |-> edge_penalty(sector_angle, conn_angle) ]
    /\ UNCHANGED << placement_vars, pipeline_vars, generator_vars >>

\* the points and line ends of the calls of _point_to_line_distance, in px
DistanceGrid == { 0, 10, 20, 30, 40 } \X { 0, 10, 20, 30, 40 }

\* the call of the docstring: point (50, 50), line (0, 0)-(100, 0)
DocstringCall == << << 50, 50 >>, << 0, 0 >>, << 100, 0 >> >>

\* _point_to_line_distance((px, py), line_p1, line_p2)
CallPointToLineDistance ==
    /\ helper.fn = "none"
    /\ \E c \in (DistanceGrid \X DistanceGrid \X DistanceGrid) \cup { DocstringCall } :
          helper' = [ fn      |-> "point_to_line_distance",
                      point   |-> c[1],
                      line_p1 |-> c[2],
                      line_p2 |-> c[3],
                      ret     |-> point_to_line_distance(1000 * c[1][1], 1000 * c[1][2],
                                                         c[2], c[3]) ]
    /\ UNCHANGED << placement_vars, pipeline_vars, generator_vars >>

\* Doubles of the clipping loop.  A coordinate is << n, d, e >>: the exact value
\* n/d (d > 0, reduced) and the sign e of the deviation of the double from it.
RECURSIVE GCD(_, _)
GCD(a, b) == IF b = 0 THEN a ELSE GCD(b, a % b)

Norm(n, d) ==
    LET g == GCD(Abs(n), Abs(d))
        s == IF d < 0 THEN -1 ELSE 1
    IN  << (s * n) \div g, (s * d) \div g >>

RAdd(a, b) == Norm(a[1] * b[2] + b[1] * a[2], a[2] * b[2])
RSub(a, b) == Norm(a[1] * b[2] - b[1] * a[2], a[2] * b[2])
RMul(a, b) == Norm(a[1] * b[1], a[2] * b[2])
RDiv(a, b) == Norm(a[1] * b[2], a[2] * b[1])

\* an int as a coordinate
Exact(v) == << v, 1, 0 >>

\* "c < bound" and "c > bound" for a coordinate and an int
below(c, bound) == c[1] < bound * c[2] \/ (c[1] = bound * c[2] /\ c[3] < 0)
above(c, bound) == c[1] > bound * c[2] \/ (c[1] = bound * c[2] /\ c[3] > 0)

\* The calls of _line_rectangle_intersect: ends of the segment and rectangles
SegmentGrid == (0..6) \X (0..6)
Rectangles == { << 0, 3, 1, 5 >>, << 2, 2, 4, 4 >>, << 3, 3, 3, 3 >> }

\* The clips of these calls whose double is not the exact value where the exact
\* value lies on a side of the rectangle: << line_p1, line_p2, rect, number of the
\* clip, sign of the deviation >>.  Clip 2 of the first call computes
\* 5 + (0 - 5) * (1 - 1.6666666666666667) / (0 - 1.6666666666666667)
\* = 2.9999999999999996 for the exact 3.
DoubleDeviation == { << << 2, 6 >>, << 0, 0 >>, << 0, 3, 1, 5 >>, 2, -1 >> }

deviation(line_p1, line_p2, rect, clip) ==
    IF \E t \in DoubleDeviation : t[1] = line_p1 /\ t[2] = line_p2 /\ t[3] = rect /\ t[4] = clip
    THEN (CHOOSE t \in DoubleDeviation :
              t[1] = line_p1 /\ t[2] = line_p2 /\ t[3] = rect /\ t[4] = clip)[5]
    ELSE 0

\* compute_outcode: the set of the bits of the outcode
compute_outcode(x, y, rect) ==
    (IF below(x, rect[1]) THEN { "LEFT" } ELSE IF above(x, rect[3]) THEN { "RIGHT" } ELSE {})
    \cup
    (IF below(y, rect[2]) THEN { "BOTTOM" } ELSE IF above(y, rect[4]) THEN { "TOP" } ELSE {})

\* a + (b - a) * (bound - c) / (e - c) on the exact values; dev is the sign of the
\* deviation of the double result
interpolate(a, b, bound, c, e, dev) ==
    LET r == RAdd(a, RDiv(RMul(RSub(b, a), RSub(<< bound, 1 >>, c)), RSub(e, c)))
    IN  << r[1], r[2], dev >>

\* the call: the outcodes of both ends
EnterLineRectangleIntersect ==
    /\ helper.fn = "none"
    /\ \E line_p1 \in SegmentGrid, line_p2 \in SegmentGrid, rect \in Rectangles :
          helper' = [ fn         |-> "line_rectangle_intersect",
                      pc         |-> "loop",
                      line_p1    |-> line_p1,
                      line_p2    |-> line_p2,
                      rect       |-> rect,
                      p1         |-> << Exact(line_p1[1]), Exact(line_p1[2]) >>,
                      p2         |-> << Exact(line_p2[1]), Exact(line_p2[2]) >>,
                      outcode1   |-> compute_outcode(Exact(line_p1[1]), Exact(line_p1[2]), rect),
                      outcode2   |-> compute_outcode(Exact(line_p2[1]), Exact(line_p2[2]), rect),
                      iterations |-> 0,
                      ret        |-> FALSE,
                      error      |-> "none" ]
    /\ UNCHANGED << placement_vars, pipeline_vars, generator_vars >>

\* one pass of the body of "while True"
ClipStep ==
    /\ helper.fn = "line_rectangle_intersect"
    /\ helper.pc = "loop"
    /\ LET h    == helper
           rect == h.rect
           x1   == h.p1[1]
           y1   == h.p1[2]
           x2   == h.p2[1]
           y2   == h.p2[2]
           outcode_out == IF h.outcode1 # {} THEN h.outcode1 ELSE h.outcode2
           dev  == deviation(h.line_p1, h.line_p2, rect, h.iterations + 1)
           horizontal == "TOP" \in outcode_out \/ "BOTTOM" \in outcode_out
           divisor == IF horizontal THEN RSub(y2, y1) ELSE RSub(x2, x1)
           bound == IF "TOP" \in outcode_out THEN rect[4]
                    ELSE IF "BOTTOM" \in outcode_out THEN rect[2]
                    ELSE IF "RIGHT" \in outcode_out THEN rect[3]
                    ELSE rect[1]
           x    == IF horizontal THEN interpolate(x1, x2, bound, y1, y2, dev) ELSE Exact(bound)
           y    == IF horizontal THEN Exact(bound) ELSE interpolate(y1, y2, bound, x1, x2, dev)
       IN  IF h.outcode1 = {} /\ h.outcode2 = {}
           THEN helper' = [ h EXCEPT !.pc = "returned", !.ret = TRUE ]
           ELSE IF h.outcode1 \cap h.outcode2 # {}
           THEN helper' = [ h EXCEPT !.pc = "returned", !.ret = FALSE ]
           ELSE IF divisor[1] = 0
           THEN helper' = [ h EXCEPT !.pc = "returned", !.error = "ZeroDivisionError" ]
           ELSE IF outcode_out = h.outcode1
           THEN helper' = [ h EXCEPT !.p1 = << x, y >>,
                                     !.outcode1 = compute_outcode(x, y, rect),
                                     !.iterations = @ + 1 ]
           ELSE helper' = [ h EXCEPT !.p2 = << x, y >>,
                                     !.outcode2 = compute_outcode(x, y, rect),
                                     !.iterations = @ + 1 ]
    /\ UNCHANGED << placement_vars, pipeline_vars, generator_vars >>

\* CVParser._clean_text on texts of at most MaxTextLen characters
MaxTextLen == 5
Alphabet == { "a", " ", "\t", "\n" }
Whitespace == { " ", "\t", "\n" }
Texts == UNION { [ 1..n -> Alphabet ] : n \in 0..MaxTextLen }

\* the characters of s at the positions I, in order
Pick(s, I) ==
    [ idx \in 1..Cardinality(I) |->
        s[CHOOSE i \in I : Cardinality({ j \in I : j < i }) = idx - 1] ]

\* re.sub(r'\n+', '\n', text)
collapse_newlines(text) ==
    Pick(text, { i \in 1..Len(text) : ~(text[i] = "\n" /\ i > 1 /\ text[i - 1] = "\n") })

\* re.sub(r'[ \t]+', ' ', text)
collapse_blanks(text) ==
    LET blank(i) == text[i] \in { " ", "\t" }
        kept     == Pick(text, { i \in 1..Len(text) : ~(blank(i) /\ i > 1 /\ blank(i - 1)) })
    IN  [ idx \in 1..Len(kept) |-> IF kept[idx] = "\t" THEN " " ELSE kept[idx] ]

\* text.split('\n')
split_lines(text) ==
    LET N == { i \in 1..Len(text) : text[i] = "\n" }
        B == Pick([ i \in 1..Len(text) |-> i ], N)
    IN  [ idx \in 1..(Cardinality(N) + 1) |->
            SubSeq(text,
                   IF idx = 1 THEN 1 ELSE B[idx - 1] + 1,
                   IF idx = Cardinality(N) + 1 THEN Len(text) ELSE B[idx] - 1) ]

\* str.strip()
strip(s) ==
    LET W == { i \in 1..Len(s) : s[i] \notin Whitespace }
    IN  IF W = {} THEN << >>
        ELSE SubSeq(s, CHOOSE i \in W : \A j \in W : i <= j,
                       CHOOSE i \in W : \A j \in W : i >= j)

\* '\n'.join(lines)
RECURSIVE join_lines(_)
join_lines(lines) ==
    IF Len(lines) = 0 THEN << >>
    ELSE IF Len(lines) = 1 THEN lines[1]
    ELSE lines[1] \o << "\n" >> \o join_lines(Tail(lines))

clean_text(text) ==
    LET t1    == collapse_newlines(text)
        t2    == collapse_blanks(t1)
        lines == split_lines(t2)
        stripped == [ idx \in 1..Len(lines) |-> strip(lines[idx]) ]
    IN  strip(join_lines(stripped))

\* a call, and a second call on its result
CallCleanText ==
    /\ helper.fn = "none"
    /\ \E text \in Texts :
          helper' = [ fn    |-> "clean_text",
                      text  |-> text,
                      ret   |-> clean_text(text),
                      again |-> clean_text(clean_text(text)) ]
    /\ UNCHANGED << placement_vars, pipeline_vars, generator_vars >>

\* one call of a helper function, or one pass of the clipping loop
HelperNext ==
    \/ CallMinAngularDistance
    \/ CallEdgePenalty
    \/ CallPointToLineDistance
    \/ EnterLineRectangleIntersect
    \/ ClipStep
    \/ CallCleanText

HelperSpec == HelperInit /\ [][HelperNext]_vars

-----------------------------------------------------------------------------
(* Claims on the helper functions                                          *)

\* the distance on the circle between two directions given in mdeg
circular_distance(a, b) ==
    LET d == (a - b) % 360000
    IN  Min2(d, 360000 - d)

\* C21: for the angles the sector scoring passes, _min_angular_distance returns
\* the minimum circular distance, in [0, 180] degrees, symmetric in its arguments.
\* A sector centre of 210 degrees or more and a negative edge direction differ by
\* more than 360 degrees, and 2*pi - diff is then negative.
C21_AngularDistance ==
    helper.fn = "min_angular_distance" =>
        /\ helper.ret >= 0
        /\ helper.ret <= 180000
        /\ helper.ret = helper.swapped
        /\ helper.ret = circular_distance(helper.angle1, helper.angle2)

\* C24: the reduction of a sector score for one incident edge is
\* 50 * (1 - d/30) for an angular distance d < 30 degrees and nothing from 30
\* degrees on, hence between 0 and 50. The distance the code computes can be
\* negative, and the reduction then exceeds 50.
C24_EdgePenalty ==
    helper.fn = "edge_penalty" =>
        LET d == circular_distance(helper.angle1, helper.angle2)
        IN  /\ helper.ret >= 0
            /\ helper.ret <= 50000
            /\ d >= 30000 => helper.ret = 0
            /\ d < 30000 => helper.ret = 50000 - (5 * d) \div 3

\* C22: for distinct line ends _point_to_line_distance returns the distance from
\* the point to the infinite line through them, also when the foot of the
\* perpendicular lies beyond an end (50 for the point (50, 50) and the line
\* (0, 0)-(100, 0)); for equal ends it returns the distance to that point, and no
\* call divides by zero. Distances are compared in tenths of a pixel.
C22_PointToLineDistance ==
    helper.fn = "point_to_line_distance" =>
        LET p     == helper.point
            a     == helper.line_p1
            b     == helper.line_p2
            r     == helper.ret \div 100
            len2  == (b[1] - a[1]) * (b[1] - a[1]) + (b[2] - a[2]) * (b[2] - a[2])
            cross == Abs((b[1] - a[1]) * (p[2] - a[2]) - (b[2] - a[2]) * (p[1] - a[1]))
            far2  == (p[1] - a[1]) * (p[1] - a[1]) + (p[2] - a[2]) * (p[2] - a[2])
        IN  /\ helper.ret >= 0
            /\ << p, a, b >> = DocstringCall => helper.ret = 50000
            /\ (<< p, a, b >> # DocstringCall /\ a # b) =>
                  /\ r > 0 => (r - 1) * (r - 1) * len2 <= 100 * cross * cross
                  /\ 100 * cross * cross <= (r + 2) * (r + 2) * len2
            /\ a = b =>
                  /\ r * r <= 100 * far2
                  /\ 100 * far2 < (r + 1) * (r + 1)

\* the foot of the perpendicular lies 30 px beyond the end of the line: the
\* result is the distance to the line, 10 px, not the distance to the end
C22_Witness ==
    /\ helper.fn = "point_to_line_distance"
    /\ helper.point = << 40, 10 >>
    /\ helper.line_p1 = << 0, 0 >>
    /\ helper.line_p2 = << 10, 0 >>
    /\ helper.ret = 10000

\* on which side of the line through a and b the point c lies
side(a, b, c) ==
    LET v == (b[1] - a[1]) * (c[2] - a[2]) - (b[2] - a[2]) * (c[1] - a[1])
    IN  IF v > 0 THEN 1 ELSE IF v < 0 THEN -1 ELSE 0

\* the segment a-b has a point inside or on the rectangle: their extents overlap
\* on both axes and the corners are not all strictly on one side of the line
segment_meets_rectangle(a, b, rect) ==
    LET corners == { << rect[1], rect[2] >>, << rect[1], rect[4] >>,
                     << rect[3], rect[2] >>, << rect[3], rect[4] >> }
        lo(u, v) == IF u <= v THEN u ELSE v
        hi(u, v) == IF u >= v THEN u ELSE v
    IN  /\ hi(a[1], b[1]) >= rect[1]
        /\ lo(a[1], b[1]) <= rect[3]
        /\ hi(a[2], b[2]) >= rect[2]
        /\ lo(a[2], b[2]) <= rect[4]
        /\ ~(\A c \in corners : side(a, b, c) = 1)
        /\ ~(\A c \in corners : side(a, b, c) = -1)

\* C26: _line_rectangle_intersect ends after finitely many clips, without a
\* division by zero, and returns true exactly when the segment has a point inside
\* or on the rectangle. The loop ends, but a segment that touches a corner of the
\* rectangle can be clipped to a double just outside it and is answered false.
C26_SegmentRectangle ==
    helper.fn = "line_rectangle_intersect" =>
        /\ helper.iterations <= 4
        /\ helper.error = "none"
        /\ helper.pc = "returned" =>
              helper.ret = segment_meets_rectangle(helper.line_p1, helper.line_p2, helper.rect)

\* C27: the result of CVParser._clean_text has no two consecutive newlines, no two
\* consecutive spaces and no line with leading or trailing whitespace, and cleaning
\* it again changes nothing. A line of blanks between two lines is emptied after
\* the newline runs were collapsed, and leaves two consecutive newlines.
C27_CleanText ==
    helper.fn = "clean_text" =>
        LET out == helper.ret
            lines == split_lines(out)
        IN  /\ \A i \in 1..(Len(out) - 1) : ~(out[i] = "\n" /\ out[i + 1] = "\n")
            /\ \A i \in 1..(Len(out) - 1) : ~(out[i] = " " /\ out[i + 1] = " ")
            /\ \A idx \in 1..Len(lines) : strip(lines[idx]) = lines[idx]
            /\ helper.again = out

-----------------------------------------------------------------------------
(* Claims on the sector loop of _find_label_position                       *)

\* the hypothetical label centre of sector i of the star at star lies inside the
\* title zone or inside the watermark zone
centre_in_zone(star, i) ==
    \/ point_in_box(radial_x(star[1], i), radial_y(star[2], i),
                    get_title_zone(ImageSize, title))
    \/ point_in_box(radial_x(star[1], i), radial_y(star[2], i),
                    get_watermark_zone(ImageSize))

\* C29: a sector whose hypothetical label centre lies inside the title zone or the
\* watermark zone is never selected for placement. A zone costs 200 points, which
\* leaves such a sector at -100 when nothing else is subtracted, and the loop skips
\* only the scores below -100.
C29_ZoneSectorNeverSelected ==
    \A j \in 1..Len(attempts) :
        attempts[j].sector >= 0 =>
            ~centre_in_zone(mappings[attempts[j].star + 1].star, attempts[j].sector)

\* the sector of entry e scores at least -100 and passes the three validation tests
qualifies(e) == ~(e[2] < -100000) /\ ~rejected(e)

entries == { sector_scores[n] : n \in 1..Len(sector_scores) }

placed == SelectSeq(attempts, LAMBDA a : a.sector >= 0)

\* the text bounding box of a placed label
text_box_of(a) ==
    textbbox(a.pos[1], a.pos[2], mappings[a.star + 1].tech.len, Font.label)

\* the occupied list is the list of the recorded boxes of the placed labels; a
\* later label's validation box is clear of every earlier recorded box, and the
\* text bounding boxes of two placed labels do not intersect
labels_apart ==
    /\ pc \in { "labels", "sectors", "done" } =>
          occupied_boxes = [ j \in 1..Len(placed) |-> placed[j].box ]
    /\ \A j \in 1..Len(placed) :
          /\ placed[j].box = Pad(text_box_of(placed[j]), 8)
          /\ \A i \in 1..(j - 1) :
                /\ ~BoxOverlap(Pad(text_box_of(placed[j]), 4), placed[i].box)
                /\ ~BoxOverlap(text_box_of(placed[j]), text_box_of(placed[i]))

\* C28: during a run of add_tech_labels the occupied list only grows, by exactly
\* the recorded box of each placed label and by nothing for an unplaceable label;
\* the validation box (text box padded by 4) of a later label does not overlap the
\* recorded box (text box padded by 8) of an earlier one, so the text bounding
\* boxes of two placed labels never intersect.
C28_OccupiedBoxes ==
    [][ /\ pc \in { "labels", "sectors" } =>
              IF pc = "sectors" /\ pc' = "labels" /\ position' # None
              THEN occupied_boxes' =
                      Append(occupied_boxes,
                             Pad(textbbox(position'[1], position'[2], cur_len, Font.label), 8))
              ELSE occupied_boxes' = occupied_boxes
        /\ labels_apart' ]_vars

\* a run has placed two labels whose recorded boxes overlap
C28_Witness ==
    /\ pc = "done"
    /\ \E i, j \in 1..Len(placed) : i < j /\ BoxOverlap(placed[i].box, placed[j].box)

\* a graph of a single star with no edges and one label, whose 0-degree candidate
\* is inside the canvas and clear of the title and watermark zones
zero_edge_star ==
    /\ Len(star_positions) = 1
    /\ connections = << >>
    /\ Len(mappings) = 1
    /\ LET star == mappings[1].star
           len  == mappings[1].tech.len
           box  == test_box_at(sector_position(0, star[1], star[2], len), len)
       IN  /\ ~out_of_bounds(box, ImageSize)
           /\ ~centre_in_zone(star, 0)

\* C23: the label of a zero-edge star is placed, and its centre is at
\* MIN_DISTANCE_FROM_STAR from the star in the 0-degree direction (to the pixel).
\* The label goes to sector 0, but its top-left corner is computed from the size of
\* the text alone, and the text bounding box starts below the drawing origin.
C23_ZeroEdgeStar ==
    (pc = "done" /\ zero_edge_star) =>
        /\ Len(attempts) = 1
        /\ attempts[1].sector = 0
        /\ LET box  == attempts[1].box
               star == mappings[1].star
           IN  /\ Abs(box[1] + box[3] - 2 * (star[1] + MIN_DISTANCE_FROM_STAR)) <= 2
               /\ Abs(box[2] + box[4] - 2 * star[2]) <= 2

-----------------------------------------------------------------------------
(* Claims on the generation counter                                        *)

\* C30: a generate call that passes the quota check increments the counter of its
\* generator by exactly one before the remote call; the counter keeps that value
\* when the remote call, the conversion or the validation fails; and the counter
\* never goes down except to 0 by the reset of a new day.
C30_CounterKeptOnFailure ==
    [][ /\ \A g \in Instances :
              count_of(g)' < count_of(g) => today > date_of(g) /\ count_of(g)' = 0
        /\ \A r \in 1..MaxRequests :
              LET g == requests[r].inst
              IN  /\ (requests[r].pc = "admitted" /\ requests'[r].pc = "calling") =>
                        /\ ~requests[r].called
                        /\ count_of(g) = requests[r].count_before
                        /\ count_of(g)' = requests[r].count_before + 1
                  /\ (requests[r].pc = "calling" /\ requests'[r].pc = "done") =>
                        /\ requests'[r].called
                        /\ count_of(g) = requests[r].count_before + 1
                        /\ count_of(g)' = requests[r].count_before + 1 ]_vars

\* a call has passed the check, its image failed the validation, and the counter
\* of its generator is one above the value the check saw
C30_Witness ==
    \E r \in 1..MaxRequests :
        /\ requests[r].pc = "done"
        /\ requests[r].called
        /\ requests[r].outcome = "VertexAIError"
        /\ requests[r].cause = "ImageValidationError"
        /\ count_of(requests[r].inst) = requests[r].count_before + 1

====
